---- MODULE Spec2Model ----
(***************************************************************************)
(* Model of orgize's headline title parser, src/elements/title.rs:         *)
(* parse_headline, Title::parse, parse_properties_drawer and               *)
(* parse_node_property.                                                    *)
(*                                                                         *)
(* A string is a sequence of one-character strings.  Option<T> is a        *)
(* sequence of length at most one: <<>> is None, <<v>> is Some(v).         *)
(***************************************************************************)
EXTENDS Integers, Sequences, FiniteSets, TLC

VARIABLES input, config, pc, rest, level, keyword, priority, tail, raw, tags,
          again, planning, properties, failed

vars == <<input, config, pc, rest, level, keyword, priority, tail, raw, tags,
          again, planning, properties, failed>>

----------------------------------------------------------------------------
(* Characters *)

SP == " "
TAB == "\t"
NL == "\n"

None == <<>>
Some(v) == <<v>>

Take(s, n) == SubSeq(s, 1, n)
Drop(s, n) == SubSeq(s, n + 1, Len(s))

\* char::is_ascii_uppercase
IsAsciiUppercase(c) ==
    c \in {"A", "B", "C", "D", "E", "F", "G", "H", "I", "J", "K", "L", "M",
           "N", "O", "P", "Q", "R", "S", "T", "U", "V", "W", "X", "Y", "Z"}

\* the characters nom's space1 accepts
SpaceOrTab == {SP, TAB}

\* the characters char::is_whitespace accepts, among those of the model
Whitespace == {SP, TAB, NL, "\r", "\f"}

IsWhitespace(c) == c \in Whitespace

\* nom take_while(|c| set.contains(c)): the length of the longest prefix of
\* s whose characters are in set
SpanLen(s, set) ==
    CHOOSE n \in 0..Len(s) :
        /\ \A i \in 1..n : s[i] \in set
        /\ n = Len(s) \/ s[n + 1] \notin set

\* the length of the longest prefix of s with no character in set
WordLen(s, set) ==
    CHOOSE n \in 0..Len(s) :
        /\ \A i \in 1..n : s[i] \notin set
        /\ n = Len(s) \/ s[n + 1] \in set

\* str::trim
Trim(s) ==
    LET idx == {i \in 1..Len(s) : ~IsWhitespace(s[i])}
    IN  IF idx = {} THEN <<>>
        ELSE LET lo == CHOOSE i \in idx : \A j \in idx : i <= j
                 hi == CHOOSE i \in idx : \A j \in idx : j <= i
             IN  SubSeq(s, lo, hi)

\* str::starts_with
IsPrefixOf(p, s) == Len(p) <= Len(s) /\ SubSeq(s, 1, Len(p)) = p

\* str::trim_start
TrimStart(s) == Drop(s, SpanLen(s, Whitespace))

----------------------------------------------------------------------------
(* crate::parsers *)

\* parsers::take_one_word: the next whitespace-delimited word
TakeOneWord(s) ==
    LET n == WordLen(s, Whitespace)
    IN  [word |-> Take(s, n), rest |-> Drop(s, n)]

\* parsers::line: the rest of the physical line, and the text after its
\* line break
Line(s) ==
    LET idx == {i \in 1..Len(s) : s[i] = NL}
    IN  IF idx = {} THEN [line |-> s, rest |-> <<>>]
        ELSE LET i == CHOOSE k \in idx : \A j \in idx : k <= j
             IN  [line |-> Take(s, i - 1), rest |-> Drop(s, i)]

----------------------------------------------------------------------------
(* parse_headline *)

\* faulty variant of InVocabulary: done_keywords is never consulted
InVocabularyTodoOnly(w, cfg) ==
    \E k \in 1..Len(cfg.todo_keywords) : cfg.todo_keywords[k] = w

\* the closure given to verify: membership in either keyword list
InVocabulary(w, cfg) ==
    \/ \E k \in 1..Len(cfg.todo_keywords) : cfg.todo_keywords[k] = w
    \/ \E k \in 1..Len(cfg.done_keywords) : cfg.done_keywords[k] = w

\* faulty variant of TakeLevel: a single marker is taken (tag("*"))
TakeLevelOne(s) ==
    IF s # <<>> /\ s[1] = "*"
    THEN [level |-> 1, rest |-> Drop(s, 1)]
    ELSE [level |-> 0, rest |-> s]

\* map(take_while(|c| c == '*'), |s| s.len())
TakeLevel(s) ==
    LET n == SpanLen(s, {"*"})
    IN  [level |-> n, rest |-> Drop(s, n)]

\* opt(preceded(space1, verify(take_one_word, in vocabulary)))
KeywordStep(s, cfg) ==
    LET n == SpanLen(s, SpaceOrTab)
        w == TakeOneWord(Drop(s, n))
    IN  IF n > 0 /\ InVocabulary(w.word, cfg)
        THEN [keyword |-> Some(w.word), rest |-> w.rest]
        ELSE [keyword |-> None, rest |-> s]

\* delimited(tag("[#"), verify(anychar, is_ascii_uppercase), tag("]")) run
\* on the word: the result of the inner parser; what it leaves of the word
\* is not looked at (map_parser)
CookieOf(w) ==
    IF /\ Len(w) >= 4
       /\ w[1] = "[" /\ w[2] = "#"
       /\ IsAsciiUppercase(w[3])
       /\ w[4] = "]"
    THEN Some(w[3])
    ELSE None

\* opt(preceded(space1, map_parser(take_one_word, delimited(...))))
PriorityStep(s) ==
    LET n == SpanLen(s, SpaceOrTab)
        w == TakeOneWord(Drop(s, n))
    IN  IF n > 0 /\ CookieOf(w.word) # None
        THEN [priority |-> CookieOf(w.word), rest |-> w.rest]
        ELSE [priority |-> None, rest |-> s]

\* memrchr(b' ', tail): the index of the last space, 0 when there is none
LastSpace(s) ==
    LET idx == {i \in 1..Len(s) : s[i] = SP}
    IN  IF idx = {} THEN 0 ELSE CHOOSE i \in idx : \A j \in idx : j <= i

\* faulty variant of TagsAccepted: the length test is off by one
TagsAcceptedShort(x) == Len(x) >= 2 /\ x[1] = ":" /\ x[Len(x)] = ":"

\* the filter on the candidate tag block
TagsAccepted(x) == Len(x) > 2 /\ x[1] = ":" /\ x[Len(x)] = ":"

\* faulty variant of SplitTail: the text before the tag block is not trimmed
SplitTailUntrimmed(t) ==
    LET i == LastSpace(t)
    IN  IF i > 0 /\ TagsAccepted(Drop(t, i))
        THEN [raw |-> Take(t, i - 1), tags |-> Drop(t, i)]
        ELSE [raw |-> t, tags |-> <<>>]

\* memrchr(..).map(..).filter(..).unwrap_or((tail, ""))
SplitTail(t) ==
    LET i == LastSpace(t)
    IN  IF i > 0 /\ TagsAccepted(Drop(t, i))
        THEN [raw |-> Trim(Take(t, i - 1)), tags |-> Drop(t, i)]
        ELSE [raw |-> t, tags |-> <<>>]

\* str::split(':')
RECURSIVE SplitColon(_)
SplitColon(s) ==
    LET idx == {i \in 1..Len(s) : s[i] = ":"}
    IN  IF idx = {} THEN <<s>>
        ELSE LET i == CHOOSE k \in idx : \A j \in idx : k <= j
             IN  <<Take(s, i - 1)>> \o SplitColon(Drop(s, i))

\* faulty variant of CollectTags: empty segments are kept
CollectTagsKeepEmpty(s) == SplitColon(s)

\* tags.split(':').filter(|s| !s.is_empty()).collect()
CollectTags(s) == SelectSeq(SplitColon(s), LAMBDA x : x # <<>>)

\* faulty variant of ParseHeadline: the priority cookie is looked for only
\* after a keyword
ParseHeadlineCookieAfterKeyword(s, cfg) ==
    LET l == TakeLevel(s)
        k == KeywordStep(l.rest, cfg)
        p == IF k.keyword # None THEN PriorityStep(k.rest)
             ELSE [priority |-> None, rest |-> k.rest]
        ln == Line(p.rest)
        t == Trim(ln.line)
        sp == SplitTail(t)
    IN  [rest |-> ln.rest, level |-> l.level, keyword |-> k.keyword,
         priority |-> p.priority, tail |-> t, raw |-> sp.raw,
         tags |-> CollectTags(sp.tags)]

\* parse_headline
ParseHeadline(s, cfg) ==
    LET l == TakeLevel(s)
        k == KeywordStep(l.rest, cfg)
        p == PriorityStep(k.rest)
        ln == Line(p.rest)
        t == Trim(ln.line)
        sp == SplitTail(t)
    IN  [rest |-> ln.rest, level |-> l.level, keyword |-> k.keyword,
         priority |-> p.priority, tail |-> t, raw |-> sp.raw,
         tags |-> CollectTags(sp.tags)]

----------------------------------------------------------------------------
(* parse_properties_drawer and parse_node_property *)

PROPERTIES == <<"P", "R", "O", "P", "E", "R", "T", "I", "E", "S">>
LOGBOOK == <<"L", "O", "G", "B", "O", "O", "K">>
END == <<":", "E", "N", "D", ":">>

\* HashMap::new()
EmptyMap == [k \in {} |-> <<>>]

\* HashMap::insert: a later value replaces an earlier one of the same key
Insert(m, k, v) == [x \in DOMAIN m \cup {k} |-> IF x = k THEN v ELSE m[x]]

\* the index of the first c in s, 0 when there is none
FirstIndex(s, c) ==
    LET idx == {i \in 1..Len(s) : s[i] = c}
    IN  IF idx = {} THEN 0 ELSE CHOOSE i \in idx : \A j \in idx : i <= j

\* str::trim_end_matches('+')
RECURSIVE TrimEndPlus(_)
TrimEndPlus(s) ==
    IF s # <<>> /\ s[Len(s)] = "+" THEN TrimEndPlus(Take(s, Len(s) - 1)) ELSE s

\* parsers::skip_empty_lines: the text after the leading blank lines
RECURSIVE SkipEmptyLines(_)
SkipEmptyLines(s) ==
    IF s = <<>> THEN s
    ELSE LET ln == Line(s)
         IN  IF Trim(ln.line) = <<>> /\ Len(ln.rest) < Len(s)
             THEN SkipEmptyLines(ln.rest)
             ELSE s

\* the body of the generic drawer parser: the lines up to the line ":END:"
RECURSIVE DrawerBody(_, _)
DrawerBody(s, acc) ==
    IF s = <<>> THEN [ok |-> FALSE, content |-> <<>>, rest |-> <<>>]
    ELSE LET ln == Line(s)
         IN  IF Trim(ln.line) = END
             THEN [ok |-> TRUE, content |-> acc, rest |-> ln.rest]
             ELSE DrawerBody(ln.rest, acc \o Take(s, Len(s) - Len(ln.rest)))

\* Drawer::parse: ":NAME:" on a line of its own, the body, ":END:"
DrawerParse(s) ==
    LET ln == Line(s)
        head == Trim(ln.line)
        name == SubSeq(head, 2, Len(head) - 1)
        body == DrawerBody(ln.rest, <<>>)
    IN  IF /\ Len(head) > 2
           /\ s[1] = ":"
           /\ head[Len(head)] = ":"
           /\ \A i \in 1..Len(name) : name[i] # ":" /\ ~IsWhitespace(name[i])
           /\ body.ok
        THEN [ok |-> TRUE, name |-> name, content |-> body.content,
              rest |-> body.rest]
        ELSE [ok |-> FALSE, name |-> <<>>, content |-> <<>>, rest |-> s]

\* faulty variant of ParseNodeProperty: the '+' that ends a name is kept
ParseNodePropertyKeepPlus(s) ==
    LET i0 == TrimStart(SkipEmptyLines(s))
        close == FirstIndex(Drop(i0, 1), ":")
        ln == Line(Drop(i0, 1 + close))
    IN  IF i0 # <<>> /\ i0[1] = ":" /\ close > 0
        THEN [ok |-> TRUE, rest |-> ln.rest,
              name |-> SubSeq(i0, 2, close),
              value |-> Trim(ln.line)]
        ELSE [ok |-> FALSE, rest |-> s, name |-> <<>>, value |-> <<>>]

\* parse_node_property
ParseNodeProperty(s) ==
    LET i0 == TrimStart(SkipEmptyLines(s))
        \* delimited(tag(":"), take_until(":"), tag(":"))
        close == FirstIndex(Drop(i0, 1), ":")
        ln == Line(Drop(i0, 1 + close))
    IN  IF i0 # <<>> /\ i0[1] = ":" /\ close > 0
        THEN [ok |-> TRUE, rest |-> ln.rest,
              name |-> TrimEndPlus(SubSeq(i0, 2, close)),
              value |-> Trim(ln.line)]
        ELSE [ok |-> FALSE, rest |-> s, name |-> <<>>, value |-> <<>>]

\* fold_many0(parse_node_property, HashMap::new(), insert); a property
\* always consumes its two colons, so the fold's no-progress error cannot
\* arise
RECURSIVE FoldProperties(_, _)
FoldProperties(s, acc) ==
    LET r == ParseNodeProperty(s)
    IN  IF r.ok THEN FoldProperties(r.rest, Insert(acc, r.name, r.value))
        ELSE acc

\* parse_properties_drawer
ParsePropertiesDrawer(s) ==
    LET d == DrawerParse(TrimStart(s))
    IN  IF d.ok /\ d.name = PROPERTIES
        THEN [ok |-> TRUE, rest |-> d.rest,
              map |-> FoldProperties(d.content, EmptyMap)]
        ELSE [ok |-> FALSE, rest |-> s, map |-> EmptyMap]

----------------------------------------------------------------------------
(* The headlines and configurations of the test parse_headline_ *)

TODO == <<"T", "O", "D", "O">>
DONE == <<"D", "O", "N", "E">>
TASK == <<"T", "A", "S", "K">>

\* ParseConfig::default()
DefaultConfig == [todo_keywords |-> <<TODO>>, done_keywords |-> <<DONE>>]

\* "**** DONE [#A] COMMENT Title :tag:a2%:"
Headline1 ==
    <<"*", "*", "*", "*", SP, "D", "O", "N", "E", SP, "[", "#", "A", "]", SP,
      "C", "O", "M", "M", "E", "N", "T", SP, "T", "i", "t", "l", "e", SP,
      ":", "t", "a", "g", ":", "a", "2", "%", ":">>
\* "**** ToDO [#A] COMMENT Title"
Headline2 ==
    <<"*", "*", "*", "*", SP, "T", "o", "D", "O", SP, "[", "#", "A", "]", SP,
      "C", "O", "M", "M", "E", "N", "T", SP, "T", "i", "t", "l", "e">>
\* "**** T0DO [#A] COMMENT Title"
Headline3 ==
    <<"*", "*", "*", "*", SP, "T", "0", "D", "O", SP, "[", "#", "A", "]", SP,
      "C", "O", "M", "M", "E", "N", "T", SP, "T", "i", "t", "l", "e">>
\* "**** DONE [#1] COMMENT Title"
Headline4 ==
    <<"*", "*", "*", "*", SP, "D", "O", "N", "E", SP, "[", "#", "1", "]", SP,
      "C", "O", "M", "M", "E", "N", "T", SP, "T", "i", "t", "l", "e">>
\* "**** DONE [#a] COMMENT Title"
Headline5 ==
    <<"*", "*", "*", "*", SP, "D", "O", "N", "E", SP, "[", "#", "a", "]", SP,
      "C", "O", "M", "M", "E", "N", "T", SP, "T", "i", "t", "l", "e">>
\* "**** Title :tag:a2%"
Headline6 ==
    <<"*", "*", "*", "*", SP, "T", "i", "t", "l", "e", SP,
      ":", "t", "a", "g", ":", "a", "2", "%">>
\* "**** Title tag:a2%:"
Headline7 ==
    <<"*", "*", "*", "*", SP, "T", "i", "t", "l", "e", SP,
      "t", "a", "g", ":", "a", "2", "%", ":">>
\* "**** DONE Title", with done_keywords: vec![]
Headline8 ==
    <<"*", "*", "*", "*", SP, "D", "O", "N", "E", SP, "T", "i", "t", "l", "e">>
\* "**** TASK [#A] Title", with todo_keywords: vec!["TASK"]
Headline9 ==
    <<"*", "*", "*", "*", SP, "T", "A", "S", "K", SP, "[", "#", "A", "]", SP,
      "T", "i", "t", "l", "e">>

TestCases ==
    {<<h, DefaultConfig>> :
        h \in {Headline1, Headline2, Headline3, Headline4, Headline5,
               Headline6, Headline7}}
    \cup {<<Headline8, [todo_keywords |-> <<TODO>>, done_keywords |-> <<>>]>>,
          <<Headline9, [todo_keywords |-> <<TASK>>, done_keywords |-> <<DONE>>]>>,
          <<Headline1, [todo_keywords |-> <<>>, done_keywords |-> <<>>]>>,
          <<Headline9, [todo_keywords |-> <<>>, done_keywords |-> <<>>]>>}

----------------------------------------------------------------------------
(* Inputs *)

\* the number of tokens after the first marker of a generated headline
MaxTokens == 4

Tokens == {<<SP>>, <<TAB>>, <<NL>>, <<"*">>, <<":">>, <<"D">>, <<"d">>,
           <<"[", "#", "A", "]">>, <<":", "d", ":">>}

RECURSIVE Flatten(_)
Flatten(ss) == IF ss = <<>> THEN <<>> ELSE Head(ss) \o Flatten(Tail(ss))

TokenSeqs == UNION {[1..n -> Tokens] : n \in 0..MaxTokens}

\* every generated headline starts with a marker, as the callers of
\* parse_headline guarantee (debug_assert!(level > 0))
Headlines == {<<"*">> \o Flatten(ts) : ts \in TokenSeqs}

Configs == {[todo_keywords |-> <<>>, done_keywords |-> << <<"D">> >>],
            [todo_keywords |-> << <<"d">> >>, done_keywords |-> <<>>]}

InitHeadline ==
    /\ \E c \in (Headlines \X Configs) \cup TestCases :
          /\ input = c[1]
          /\ config = c[2]
    /\ pc = "start"
    /\ rest = input
    /\ level = 0
    /\ keyword = None
    /\ priority = None
    /\ tail = <<>>
    /\ raw = <<>>
    /\ tags = <<>>
    /\ again = None
    /\ planning = None
    /\ properties = EmptyMap
    /\ failed = FALSE

\* a call of parse_headline
DoParseHeadline ==
    /\ pc = "start"
    /\ LET r == ParseHeadline(rest, config)
       IN  /\ rest' = r.rest
           /\ level' = r.level
           /\ keyword' = r.keyword
           /\ priority' = r.priority
           /\ tail' = r.tail
           /\ raw' = r.raw
           /\ tags' = r.tags
    /\ pc' = "parsed"
    /\ UNCHANGED <<input, config, again, planning, properties, failed>>

\* "<raw> :<tag1>:<tag2>:...:"
RECURSIVE JoinTags(_)
JoinTags(ts) == IF ts = <<>> THEN <<>> ELSE Head(ts) \o <<":">> \o JoinTags(Tail(ts))

TitleText(r, ts) == r \o <<SP, ":">> \o JoinTags(ts)

\* the headline line of the same level carrying that title text
Rebuild(n, r, ts) == [i \in 1..n |-> "*"] \o <<SP>> \o TitleText(r, ts)

\* the round trip: the headline rebuilt from raw and tags is parsed again
Reparse ==
    /\ pc = "parsed"
    /\ tags # <<>>
    /\ again' = Some(ParseHeadline(Rebuild(level, raw, tags), config))
    /\ pc' = "reparsed"
    /\ UNCHANGED <<input, config, rest, level, keyword, priority, tail, raw,
                   tags, planning, properties, failed>>

Next == DoParseHeadline \/ Reparse

Spec == InitHeadline /\ [][Next]_vars

----------------------------------------------------------------------------
(* parse_properties_drawer on its own *)

\* the number of lines between ":NAME:" and ":END:" of a generated drawer
MaxProps == 3

\* "   :PROPERTIES:\n   :CUSTOM_ID: id\n   :END:"
DrawerTest ==
    <<SP, SP, SP, ":", "P", "R", "O", "P", "E", "R", "T", "I", "E", "S", ":", NL,
      SP, SP, SP, ":", "C", "U", "S", "T", "O", "M", "_", "I", "D", ":", SP,
      "i", "d", NL,
      SP, SP, SP, ":", "E", "N", "D", ":">>

\* the lines of a drawer's body: properties, one with an appending name,
\* one indented and without a space before its value, a blank line, one
\* with no value, and two lines that are no property
BodyLines == {<<":", "A", ":", SP, "v", NL>>,
              <<":", "A", "+", ":", SP, "w", NL>>,
              <<SP, ":", "B", ":", "v", ":", SP, NL>>,
              <<SP, NL>>,
              <<":", "A", "+", "+", ":", NL>>,
              <<"x", NL>>,
              <<":", "C", NL>>}

Leads == {<<>>, <<SP, SP>>, <<NL, TAB>>}

Closings == {END, <<SP>> \o END \o <<NL, "x">>, <<>>}

Drawers ==
    {lead \o <<":">> \o name \o <<":", NL>> \o Flatten(body) \o closing :
        lead \in Leads, name \in {PROPERTIES, LOGBOOK},
        body \in UNION {[1..n -> BodyLines] : n \in 0..MaxProps},
        closing \in Closings}

InitDrawer ==
    /\ input \in Drawers \cup {DrawerTest}
    /\ config = DefaultConfig
    /\ pc = "drawer"
    /\ rest = input
    /\ level = 0
    /\ keyword = None
    /\ priority = None
    /\ tail = <<>>
    /\ raw = <<>>
    /\ tags = <<>>
    /\ again = None
    /\ planning = None
    /\ properties = EmptyMap
    /\ failed = FALSE

\* a call of parse_properties_drawer
DoParsePropertiesDrawer ==
    /\ pc = "drawer"
    /\ LET r == ParsePropertiesDrawer(rest)
       IN  /\ rest' = r.rest
           /\ properties' = r.map
           /\ failed' = ~r.ok
    /\ pc' = "drawn"
    /\ UNCHANGED <<input, config, level, keyword, priority, tail, raw, tags,
                   again, planning>>

NextDrawer == DoParsePropertiesDrawer

SpecDrawer == InitDrawer /\ [][NextDrawer]_vars

----------------------------------------------------------------------------
(* Title::parse *)

\* the number of lines after the headline line of a generated document
MaxLines == 4

CLOSED == <<"C", "L", "O", "S", "E", "D", ":">>

\* Planning::parse: a line that starts with a planning keyword
PlanningParse(s) ==
    LET ln == Line(s)
    IN  IF IsPrefixOf(CLOSED, TrimStart(ln.line))
        THEN [ok |-> TRUE, rest |-> ln.rest, planning |-> Trim(ln.line)]
        ELSE [ok |-> FALSE, rest |-> s, planning |-> <<>>]

\* Planning::parse(input).map(..).unwrap_or((input, None))
PlanningStep(s) ==
    LET r == PlanningParse(s)
    IN  IF r.ok THEN [rest |-> r.rest, planning |-> Some(r.planning)]
        ELSE [rest |-> s, planning |-> None]

\* faulty variant of OptPropertiesDrawer: the input is trimmed before the
\* attempt, so a failed attempt has consumed the leading whitespace
OptPropertiesDrawerTrimmed(s) ==
    LET r == ParsePropertiesDrawer(TrimStart(s))
    IN  IF r.ok
        THEN [failed |-> FALSE, rest |-> r.rest, properties |-> Some(r.map)]
        ELSE [failed |-> FALSE, rest |-> TrimStart(s), properties |-> None]

\* opt(parse_properties_drawer): the errors of parse_properties_drawer are
\* all Err::Error, which opt turns into None on the input it was given
OptPropertiesDrawer(s) ==
    LET r == ParsePropertiesDrawer(s)
    IN  IF r.ok
        THEN [failed |-> FALSE, rest |-> r.rest, properties |-> Some(r.map)]
        ELSE [failed |-> FALSE, rest |-> s, properties |-> None]

DocLines == {CLOSED \o <<SP, "x">>,
             <<":">> \o PROPERTIES \o <<":">>,
             <<SP, ":">> \o LOGBOOK \o <<":">>,
             <<":", "A", ":", SP, "v">>,
             END,
             <<SP>>,
             <<"d">>}

TitleLines == {<<"*", SP, "D", SP, "d", SP, ":", "d", ":">>, <<"*", "*", SP, "d">>}

RECURSIVE JoinLines(_)
JoinLines(ls) == IF ls = <<>> THEN <<>> ELSE <<NL>> \o Head(ls) \o JoinLines(Tail(ls))

Documents ==
    {h \o JoinLines(ls) :
        h \in TitleLines, ls \in UNION {[1..n -> DocLines] : n \in 0..MaxLines}}

InitTitle ==
    /\ input \in Documents
    /\ config = [todo_keywords |-> <<>>, done_keywords |-> << <<"D">> >>]
    /\ pc = "headline"
    /\ rest = input
    /\ level = 0
    /\ keyword = None
    /\ priority = None
    /\ tail = <<>>
    /\ raw = <<>>
    /\ tags = <<>>
    /\ again = None
    /\ planning = None
    /\ properties = EmptyMap
    /\ failed = FALSE

\* Title::parse, line 50
TitleHeadline ==
    /\ pc = "headline"
    /\ LET r == ParseHeadline(rest, config)
       IN  /\ rest' = r.rest
           /\ level' = r.level
           /\ keyword' = r.keyword
           /\ priority' = r.priority
           /\ tail' = r.tail
           /\ raw' = r.raw
           /\ tags' = r.tags
    /\ pc' = "planning"
    /\ UNCHANGED <<input, config, again, planning, properties, failed>>

\* Title::parse, lines 52-54
TitlePlanning ==
    /\ pc = "planning"
    /\ LET r == PlanningStep(rest)
       IN  /\ rest' = r.rest
           /\ planning' = r.planning
    /\ pc' = "properties"
    /\ UNCHANGED <<input, config, level, keyword, priority, tail, raw, tags,
                   again, properties, failed>>

\* Title::parse, lines 56-73: properties.unwrap_or_default()
TitleProperties ==
    /\ pc = "properties"
    /\ LET r == OptPropertiesDrawer(rest)
       IN  /\ rest' = r.rest
           /\ properties' = IF r.properties = None THEN EmptyMap
                            ELSE r.properties[1]
           /\ failed' = r.failed
    /\ pc' = "done"
    /\ UNCHANGED <<input, config, level, keyword, priority, tail, raw, tags,
                   again, planning>>

NextTitle == TitleHeadline \/ TitlePlanning \/ TitleProperties

SpecTitle == InitTitle /\ [][NextTitle]_vars

----------------------------------------------------------------------------
(* What the claims speak of, read off the input line itself *)

Parsed == pc \in {"parsed", "reparsed"}

IsPrefix(p, s) == Len(p) <= Len(s) /\ SubSeq(s, 1, Len(p)) = p

\* the text after the run of markers
AfterMarkers ==
    LET n == CHOOSE k \in 0..Len(input) :
                 /\ \A i \in 1..k : input[i] = "*"
                 /\ k = Len(input) \/ input[k + 1] # "*"
    IN  SubSeq(input, n + 1, Len(input))

\* the set of keywords of the configuration
Vocabulary ==
    {config.todo_keywords[k] : k \in DOMAIN config.todo_keywords}
        \cup {config.done_keywords[k] : k \in DOMAIN config.done_keywords}

\* the number of spaces and tabs s starts with
GapOf(s) == SpanLen(s, SpaceOrTab)

\* the whitespace-delimited word s starts with
WordOf(s) == Take(s, WordLen(s, Whitespace))

Gap1 == GapOf(AfterMarkers)
Word1 == WordOf(Drop(AfterMarkers, Gap1))

\* the text after the markers and the keyword, when one was recognized
AfterKeyword ==
    IF keyword = None THEN AfterMarkers
    ELSE Drop(AfterMarkers, Gap1 + Len(keyword[1]))

Gap2 == GapOf(AfterKeyword)
Word2 == WordOf(Drop(AfterKeyword, Gap2))

Cookie(l) == <<"[", "#", l, "]">>

IsCookie(w) == \E l \in {w[i] : i \in DOMAIN w} : IsAsciiUppercase(l) /\ w = Cookie(l)

StartsWithCookie(w) == Len(w) >= 4 /\ IsCookie(SubSeq(w, 1, 4))

\* r is s without its leading and trailing whitespace
IsTrimOf(r, s) ==
    \E lo \in 0..Len(s) : \E hi \in lo..Len(s) :
        /\ r = SubSeq(s, lo + 1, hi)
        /\ \A i \in 1..lo : IsWhitespace(s[i])
        /\ \A i \in (hi + 1)..Len(s) : IsWhitespace(s[i])
        /\ r # <<>> => ~IsWhitespace(r[1]) /\ ~IsWhitespace(r[Len(r)])

\* ts are the non-empty segments of block between its colons, in order
AreTagsOf(ts, block) ==
    LET colons == {i \in 1..Len(block) : block[i] = ":"}
        opens == {i \in colons : i < Len(block) /\ block[i + 1] # ":"}
        Open(k) == CHOOSE i \in opens : Cardinality({j \in opens : j < i}) = k - 1
        Close(i) == CHOOSE j \in colons : j > i /\ \A m \in colons : m > i => j <= m
    IN  /\ Len(ts) = Cardinality(opens)
        /\ \A k \in 1..Len(ts) :
              ts[k] = SubSeq(block, Open(k) + 1, Close(Open(k)) - 1)

NonWhitespace(s) == SelectSeq(s, LAMBDA c : ~IsWhitespace(c))

----------------------------------------------------------------------------
(* C8 *)

\* C8: for every headline whose leading run of markers has length n >= 1,
\* parse_headline returns level = n, the length of the maximal run of '*'
\* at the start of the input, whatever follows and whatever the vocabulary;
\* level is positive.
C8_LevelIsMarkerRun ==
    Parsed =>
        /\ level >= 1
        /\ level <= Len(input)
        /\ \A i \in 1..level : input[i] = "*"
        /\ level = Len(input) \/ input[level + 1] # "*"

C8_Witness ==
    /\ pc = "parsed"
    /\ level = 3
    /\ Len(input) > 3
    /\ \E i \in 5..Len(input) : input[i] = "*"

----------------------------------------------------------------------------
(* C10 *)

----------------------------------------------------------------------------
(* C1 *)

\* keyword is Some(w) exactly when the markers are followed by whitespace
\* and the next word w is in the vocabulary
KeywordIffInVocabulary ==
    /\ keyword # None <=> Gap1 > 0 /\ Word1 \in Vocabulary
    /\ keyword # None => keyword = Some(Word1)

\* C1 as stated: keyword recognition is vocabulary-driven, and a word that
\* is not in the vocabulary is not consumed: keyword is None and the word is
\* still the start of the title text.
C1_VocabularyDriven ==
    Parsed =>
        /\ KeywordIffInVocabulary
        /\ Gap1 > 0 /\ Word1 \notin Vocabulary =>
              keyword = None /\ IsPrefix(Word1, raw)

\* C1 as amended: keyword recognition is vocabulary-driven; a word that is
\* not in the vocabulary is not consumed as keyword (keyword is None), and
\* it is still the start of the title text unless it begins with a priority
\* cookie "[#L]", in which case the priority step consumes it.
C1_VocabularyDrivenUnlessCookie ==
    Parsed =>
        /\ KeywordIffInVocabulary
        /\ Gap1 > 0 /\ Word1 \notin Vocabulary =>
              /\ keyword = None
              /\ IF StartsWithCookie(Word1)
                 THEN priority = Some(Word1[3])
                 ELSE priority = None /\ IsPrefix(Word1, raw)

\* "* D d" with D in no keyword list: no keyword, raw "D d"
C1_Witness ==
    /\ pc = "parsed"
    /\ input = <<"*", SP, "D", SP, "d">>
    /\ config.done_keywords = <<>>
    /\ keyword = None
    /\ raw = <<"D", SP, "d">>

----------------------------------------------------------------------------
(* C2 *)

\* C2: priority is Some(L) only if the next whitespace-delimited word after
\* the markers and the optional keyword is exactly "[#L]", L an uppercase
\* ASCII letter; for any other word priority is None and the whole word is
\* left unconsumed, at the start of the title text.
C2_CookieIsWholeWord ==
    Parsed =>
        /\ priority # None =>
              /\ Gap2 > 0
              /\ IsAsciiUppercase(priority[1])
              /\ Word2 = Cookie(priority[1])
        /\ ~IsCookie(Word2) => priority = None /\ IsPrefix(Word2, raw)

----------------------------------------------------------------------------
(* C3 *)

----------------------------------------------------------------------------
(* C4 *)

\* C4: when the first whitespace-delimited word after the markers is not a
\* keyword of the vocabulary but is a cookie "[#L]", keyword is None,
\* priority is Some(L) and the cookie is not part of raw: the title text is
\* what follows the cookie on the line.
C4_CookieWithoutKeyword ==
    Parsed /\ Gap1 > 0 /\ Word1 \notin Vocabulary /\ IsCookie(Word1) =>
        /\ keyword = None
        /\ priority = Some(Word1[3])
        /\ LET after == Drop(AfterMarkers, Gap1 + 4)
               eol == {i \in 1..Len(after) : after[i] = NL}
               end == IF eol = {} THEN Len(after)
                      ELSE (CHOOSE i \in eol : \A j \in eol : i <= j) - 1
           IN  /\ IsTrimOf(tail, SubSeq(after, 1, end))
               /\ Len(raw) <= Len(tail)

\* "* [#A] Title"-like: no keyword, priority A, a title after the cookie
C4_Witness ==
    /\ pc = "parsed"
    /\ Gap1 > 0
    /\ Word1 = Cookie("A")
    /\ keyword = None
    /\ priority = Some("A")
    /\ raw # <<>>

----------------------------------------------------------------------------
(* C5 *)

\* C5 as stated: for every result with a non-empty tags sequence, the
\* headline rebuilt from raw and tags parses to the same raw and the same
\* tags in the same order.
C5_RoundTrip ==
    pc = "reparsed" => again[1].raw = raw /\ again[1].tags = tags

\* C5 as amended: the round trip holds when the first word of raw is neither
\* a keyword of the vocabulary nor begins with a priority cookie "[#L]".
C5_RoundTripOfPlainTitle ==
    pc = "reparsed"
        /\ WordOf(raw) \notin Vocabulary
        /\ ~StartsWithCookie(WordOf(raw))
        => again[1].raw = raw /\ again[1].tags = tags

\* two tags and a title of two words went round
C5_Witness ==
    /\ pc = "reparsed"
    /\ Len(tags) = 2
    /\ \E i \in 1..Len(raw) : raw[i] = SP
    /\ WordOf(raw) \notin Vocabulary
    /\ again[1].raw = raw
    /\ again[1].tags = tags

----------------------------------------------------------------------------
(* C6 *)

\* the first physical line of the text after the markers
FirstLine ==
    LET eol == {i \in 1..Len(AfterMarkers) : AfterMarkers[i] = NL}
    IN  IF eol = {} THEN AfterMarkers
        ELSE SubSeq(AfterMarkers, 1, (CHOOSE i \in eol : \A j \in eol : i <= j) - 1)

\* what the result accounts for: the keyword, the cookie and raw
Kept ==
    (IF keyword = None THEN <<>> ELSE keyword[1])
        \o (IF priority = None THEN <<>> ELSE Cookie(priority[1]))
        \o raw

\* C6: parse_headline succeeds on every input that starts with a marker, and
\* nothing of the line but whitespace is dropped: the line is, whitespace
\* aside, the keyword, the cookie, raw and the accepted tag block.
C6_NothingDropped ==
    Parsed =>
        /\ ~failed
        /\ \E j \in 0..Len(tail) :
              LET block == Drop(tail, j)
              IN  /\ NonWhitespace(FirstLine)
                        = NonWhitespace(Kept) \o NonWhitespace(block)
                  /\ \/ block = <<>> /\ tags = <<>>
                     \/ /\ j > 0 /\ tail[j] = SP
                        /\ Len(block) > 2
                        /\ block[1] = ":" /\ block[Len(block)] = ":"
                        /\ AreTagsOf(tags, block)

----------------------------------------------------------------------------
(* C9 *)

\* the k-th physical line of s, without its line break
LineAt(s, k) ==
    LET breaks == {i \in 1..Len(s) : s[i] = NL}
        Break(n) == IF n = 0 THEN 0
                    ELSE IF n > Cardinality(breaks) THEN Len(s) + 1
                    ELSE CHOOSE i \in breaks : Cardinality({j \in breaks : j < i}) = n - 1
    IN  SubSeq(s, Break(k - 1) + 1, Break(k) - 1)

LineCount(s) == Cardinality({i \in 1..Len(s) : s[i] = NL}) + 1

IsBlank(l) == \A i \in 1..Len(l) : IsWhitespace(l[i])

\* the line that opens the drawer: the first line that is not blank
OpenAt == CHOOSE k \in 1..LineCount(input) :
              /\ ~IsBlank(LineAt(input, k))
              /\ \A j \in 1..(k - 1) : IsBlank(LineAt(input, j))

\* the lines that read ":END:" after it
EndsAt == {k \in (OpenAt + 1)..LineCount(input) : IsTrimOf(END, LineAt(input, k))}

CloseAt == CHOOSE k \in EndsAt : \A j \in EndsAt : k <= j

\* the lines of the body that are not blank
BodyAt == {k \in (OpenAt + 1)..(CloseAt - 1) : ~IsBlank(LineAt(input, k))}

\* l reads ":NAME: value": n is NAME and v the rest of the line
ReadsAs(l, n, v) ==
    \E a \in 1..Len(l) : \E b \in (a + 1)..Len(l) :
        /\ \A i \in 1..(a - 1) : IsWhitespace(l[i])
        /\ l[a] = ":" /\ l[b] = ":"
        /\ n = SubSeq(l, a + 1, b - 1)
        /\ \A i \in 1..Len(n) : n[i] # ":"
        /\ v = SubSeq(l, b + 1, Len(l))

IsProperty(l) ==
    \E a \in 1..Len(l) : \E b \in (a + 1)..Len(l) :
        ReadsAs(l, SubSeq(l, a + 1, b - 1), SubSeq(l, b + 1, Len(l)))

\* k is the key of the line l: its NAME without the '+' that end it
IsKeyOf(k, l) ==
    \E n \in {SubSeq(l, a, b) : a \in 1..(Len(l) + 1), b \in 0..Len(l)} :
        /\ \E v \in {SubSeq(l, a, Len(l)) : a \in 1..(Len(l) + 1)} : ReadsAs(l, n, v)
        /\ IsPrefix(k, n)
        /\ \A i \in (Len(k) + 1)..Len(n) : n[i] = "+"
        /\ k = <<>> \/ k[Len(k)] # "+"

\* x is the value of the line l: the rest of the line, trimmed
IsValueOf(x, l) ==
    \E a \in 1..(Len(l) + 1) :
        /\ \E n \in {SubSeq(l, c, a - 2) : c \in 1..a} : ReadsAs(l, n, SubSeq(l, a, Len(l)))
        /\ IsTrimOf(x, SubSeq(l, a, Len(l)))

\* a drawer named PROPERTIES whose body holds blank lines and properties
IsPropertiesDrawer ==
    /\ \E k \in 1..LineCount(input) : ~IsBlank(LineAt(input, k))
    /\ IsTrimOf(<<":">> \o PROPERTIES \o <<":">>, LineAt(input, OpenAt))
    /\ EndsAt # {}
    /\ \A k \in BodyAt : IsProperty(LineAt(input, k))

----------------------------------------------------------------------------
(* C7 *)

\* the text after the headline line
AfterHeadline ==
    LET eol == {i \in 1..Len(input) : input[i] = NL}
    IN  IF eol = {} THEN <<>>
        ELSE SubSeq(input, (CHOOSE i \in eol : \A j \in eol : i <= j) + 1, Len(input))

\* the drawer parser fails on s, or the drawer it finds is not PROPERTIES
NoPropertiesDrawer(s) ==
    LET d == DrawerParse(TrimStart(s))
    IN  ~d.ok \/ d.name # PROPERTIES

\* C7: the optional sub-blocks of Title::parse are non-fatal and consume
\* nothing on failure: Title::parse succeeds whenever parse_headline does;
\* when the planning parser fails, planning is absent and the properties
\* step is handed the text after the headline line; when the drawer parser
\* fails or finds a drawer not named PROPERTIES, properties is the empty
\* map and the remaining input is the input as it was before the attempt.
C7_OptionalBlocks ==
    /\ [](~failed)
    /\ [](pc = "properties" /\ planning = None => rest = AfterHeadline)
    /\ [][pc = "planning" /\ ~PlanningParse(rest).ok =>
              planning' = None /\ rest' = rest]_vars
    /\ [][pc = "properties" /\ NoPropertiesDrawer(rest) =>
              properties' = EmptyMap /\ rest' = rest /\ pc' = "done"]_vars

\* no planning line, and a drawer that is not PROPERTIES after a blank
\* line: nothing of it was consumed
C7_Witness ==
    /\ pc = "done"
    /\ planning = None
    /\ properties = EmptyMap
    /\ rest = AfterHeadline
    /\ rest # <<>> /\ IsWhitespace(rest[1])
    /\ DrawerParse(TrimStart(rest)).ok
    /\ DrawerParse(TrimStart(rest)).name = LOGBOOK

====
